---- MODULE Spec2Model ----
(***************************************************************************)
(* weggli-ruleset: rule loading (src/src/rule.rs) and matching             *)
(* orchestration (src/src/matcher.rs).                                     *)
(*                                                                         *)
(* Text is modelled as a sequence of one-character strings, so that the    *)
(* substring search of the identifier pre-filter is computed, not assumed. *)
(* Indices of the program are 0-based; a program index i is position i+1   *)
(* of the corresponding TLA+ sequence.                                     *)
(*                                                                         *)
(* Four specifications share the module:                                   *)
(*   SpecFilter  Checker::check_match applied to a bounded result stream   *)
(*   SpecLoad    Rule::from_str applied to a bounded rule document         *)
(*   SpecDir     RuleSet::from_directory over a bounded directory walk     *)
(*   Spec        a RuleMatcher serving a sequence of matches_with calls    *)
(***************************************************************************)
EXTENDS Integers, Sequences, FiniteSets, TLC

VARIABLES
    \* ---- SpecFilter: one call of Checker::check_match
    checker,      \* the Checker (self)
    matches,      \* self.pattern.matches(..): the engine's result sequence
    kept,         \* the Vec<QueryResult> returned
    fpc,          \* "ready" before the call, "done" after it
    \* ---- SpecLoad: one call of Rule::from_str
    doc,          \* the rule document
    loaded,       \* the Result<Rule, RuleError> returned
    lpc,          \* "ready" | "done"
    \* ---- SpecDir: one call of RuleSet::from_directory
    walk,         \* the entries WalkDir yields, in traversal order
    ignore_errors,
    ruleset,      \* the Result<RuleSet, RuleError> returned
    dpc,          \* "ready" | "done"
    \* ---- Spec: a RuleMatcher and its calls
    rules,        \* RuleMatcher.rules: provenance key -> Rule
    order,        \* iteration order of rules.values() (fixed by the map's content)
    trees,        \* what Parser::parse has returned so far, per (source, is_cxx)
    engine,       \* what QueryTree::matches has returned so far, per (pattern, tree)
    skip_set,     \* storage of check_match's local skip_set, as the last pass left it
    call,         \* the latest matches_with call: arguments, steps, return value
    first,        \* per (source, is_cxx): the value the first such call returned
    ncalls        \* number of calls made

filterVars == <<checker, matches, kept, fpc>>
loadVars   == <<doc, loaded, lpc>>
dirVars    == <<walk, ignore_errors, ruleset, dpc>>
matchVars  == <<rules, order, trees, engine, skip_set, call, first, ncalls>>
vars       == <<filterVars, loadVars, dirVars, matchVars>>

----------------------------------------------------------------------------
(* Bounds *)

MaxLen == 3        \* longest engine result sequence given to check_match
MaxChecks == 2     \* longest check list of a rule document
MaxFiles == 3      \* most entries of a directory walk
MaxCalls == 3      \* most matches_with calls made on one RuleMatcher

----------------------------------------------------------------------------
(* Generic helpers *)

Range(s) == {s[i] : i \in DOMAIN s}

\* The value of a Result variable before its call has returned.
NoResult == [ok |-> FALSE, err |-> [kind |-> "none"]]

SeqsUpTo(S, n) == UNION {[1..k -> S] : k \in 0..n}

RECURSIVE SetToSeq(_)
SetToSeq(S) ==
    IF S = {} THEN <<>>
    ELSE LET x == CHOOSE y \in S : TRUE IN <<x>> \o SetToSeq(S \ {x})

\* The subsequence of s at the positions in I, order preserved.
RECURSIVE PickFrom(_, _, _)
PickFrom(s, i, I) ==
    IF i > Len(s) THEN <<>>
    ELSE (IF i \in I THEN <<s[i]>> ELSE <<>>) \o PickFrom(s, i + 1, I)

----------------------------------------------------------------------------
(* weggli::result::QueryResult as this crate reads it: start_offset() and  *)
(* vars / value(k, source).                                                *)

Offsets == {10, 20}
Values == {"a", "b"}

Bindings == UNION {[D -> Values] : D \in {{}, {"x"}, {"x", "y"}}}

QueryResults == [start_offset : Offsets, vars : Bindings]

----------------------------------------------------------------------------
(* Checker::check_match, rule.rs:328-351 *)

\* rule.rs:340  .all(|x| seen.insert(x)) over the values yielded by
\* rule.rs:337-339: HashSet::insert is false for a value already present, and
\* all() stops at the first false.
RECURSIVE all_insert(_, _, _)
all_insert(vals, i, seen) ==
    IF i > Len(vals) THEN TRUE
    ELSE IF vals[i] \in seen THEN FALSE
    ELSE all_insert(vals, i + 1, seen \cup {vals[i]})

\* Changed check_unique: any() in place of all().
check_unique_any(c, m) ==
    ~c.unique \/ DOMAIN m.vars # {}

\* rule.rs:334-342  the closure check_unique: seen is created inside the closure,
\* once per match.
check_unique(c, m) ==
    ~c.unique \/
        LET keys == SetToSeq(DOMAIN m.vars)
            vals == [i \in 1..Len(keys) |-> m.vars[keys[i]]]
            seen == {}
        IN all_insert(vals, 1, seen)

\* Changed check_limit: the offset is tested but never recorded.
check_limit_forget(c, m, skip) ==
    [ok |-> ~c.limit \/ m.start_offset \notin skip, skip_set |-> skip]

\* rule.rs:345  the closure check_limit: !self.limit || skip_set.insert(offset);
\* insert is only evaluated when self.limit holds.
check_limit(c, m, skip) ==
    IF ~c.limit THEN [ok |-> TRUE, skip_set |-> skip]
    ELSE [ok |-> m.start_offset \notin skip,
          skip_set |-> skip \cup {m.start_offset}]

\* Changed new_skip_set: the set of the previous pass is reused.
stale_skip_set(old) == old

\* rule.rs:344  let mut skip_set = FxHashSet::default(): whatever the storage
\* held before is discarded.
new_skip_set(old) == {}

\* Changed filter_matches: the two tests in the other order, check_limit(v) &&
\* check_unique(v), so that check_limit's insert is evaluated for every match.
RECURSIVE filter_limit_first(_, _, _, _, _)
filter_limit_first(c, ms, i, skip, out) ==
    IF i > Len(ms) THEN [kept |-> out, skip_set |-> skip]
    ELSE LET l == check_limit(c, ms[i], skip)
         IN filter_limit_first(c, ms, i + 1, l.skip_set,
                IF l.ok /\ check_unique(c, ms[i]) THEN Append(out, ms[i]) ELSE out)

\* rule.rs:347-350  .filter(|v| check_unique(v) && check_limit(v)).collect(), from
\* match i on, with the results collected so far: && evaluates check_limit, and so
\* its insert, only for a match that passed check_unique.
RECURSIVE filter_matches(_, _, _, _, _)
filter_matches(c, ms, i, skip, out) ==
    IF i > Len(ms) THEN [kept |-> out, skip_set |-> skip]
    ELSE IF ~check_unique(c, ms[i]) THEN filter_matches(c, ms, i + 1, skip, out)
    ELSE LET l == check_limit(c, ms[i], skip)
         IN filter_matches(c, ms, i + 1, l.skip_set,
                           IF l.ok THEN Append(out, ms[i]) ELSE out)

\* rule.rs:328-351  ms is self.pattern.matches(tree.root_node(), source); an empty
\* ms returns before skip_set is created.
check_match(c, ms, old) ==
    IF ms = <<>> THEN [kept |-> <<>>, skip_set |-> old]
    ELSE filter_matches(c, ms, 1, new_skip_set(old), <<>>)

----------------------------------------------------------------------------
(* SpecFilter *)

FilterCheckers ==
    [name : {"gets"}, language : {"C"}, pattern : {"p"}, identifiers : {<<>>},
     limit : BOOLEAN, unique : BOOLEAN]

FilterIdle ==
    /\ checker = [name |-> "gets", language |-> "C", pattern |-> "p",
                  identifiers |-> <<>>, limit |-> FALSE, unique |-> FALSE]
    /\ matches = <<>>
    /\ kept = <<>>
    /\ fpc = "idle"

FilterInit ==
    /\ checker \in FilterCheckers
    /\ matches \in SeqsUpTo(QueryResults, MaxLen)
    /\ kept = <<>>
    /\ fpc = "ready"

CheckMatch ==
    /\ fpc = "ready"
    /\ kept' = check_match(checker, matches, {}).kept
    /\ fpc' = "done"
    /\ UNCHANGED <<checker, matches>>

----------------------------------------------------------------------------
(* Rule documents (YAML) and their deserialization, rule.rs:223-508.       *)
(* A document is what serde_yaml hands to the derived Deserialize impls:   *)
(* a field is "absent" or holds its scalar; the checks value is one        *)
(* mapping or a list of mappings.                                          *)

\* Patterns as weggli sees them: whether parse_search_pattern accepts the text
\* for cxx = FALSE / TRUE, the identifiers() of the compiled QueryTree, and whether
\* every regex-constrained variable is one of its variables().
PatGets == [text |-> "gets", compiles |-> {FALSE, TRUE},
            identifiers |-> << <<"g", "s">> >>]
PatBoth == [text |-> "both", compiles |-> {FALSE, TRUE},
            identifiers |-> << <<"s">>, <<"g">> >>]
PatCxx  == [text |-> "cxx", compiles |-> {TRUE},
            identifiers |-> << <<"g">> >>]
PatBad  == [text |-> "bad", compiles |-> {}, identifiers |-> <<>>]

\* rule.rs:269-276  #[derive(Deserialize)] enum CheckerLanguage: the derived
\* visitor matches the input against each variant's rename and aliases, variant by
\* variant in declaration order; the first arm that matches wins.
LanguageVariants ==
    << [variant |-> "C",         names |-> {"c", "C++"}],
       [variant |-> "Cplusplus", names |-> {"c++", "C++"}] >>

\* rule.rs:269-276, 387-388  the language field: #[serde(default)] and #[default] C
\* when absent, else the first matching variant, else serde's unknown-variant error.
deserialize_language(l) ==
    IF l = "absent" THEN [ok |-> TRUE, v |-> "C"]
    ELSE LET hits == {i \in DOMAIN LanguageVariants : l \in LanguageVariants[i].names}
         IN IF hits = {} THEN [ok |-> FALSE, err |-> "unknown variant"]
            ELSE [ok |-> TRUE,
                  v |-> LanguageVariants[CHOOSE i \in hits : \A j \in hits : i <= j].variant]

\* rule.rs:278-286
is_cxx(language) == language = "Cplusplus"

\* rule.rs:398-400
default_check_name == "default"

\* rule.rs:383-396  #[derive(Deserialize)] struct CheckerT
deserialize_CheckerT(cd) ==
    LET lang == deserialize_language(cd.language)
    IN IF ~lang.ok THEN [ok |-> FALSE, err |-> lang.err]
       ELSE [ok |-> TRUE,
             v |-> [name |-> IF cd.name = "absent" THEN default_check_name ELSE cd.name,
                    language |-> lang.v,
                    pattern |-> cd.pattern,
                    regexes |-> cd.regexes,
                    limit |-> cd.limit,
                    unique |-> cd.unique]]

\* rule.rs:367-372  #[serde(untagged)] enum OneOrMany<T>: Many(NonEmpty<T>) is tried
\* first, then One(T); a value that fits neither is an error.
deserialize_OneOrMany(value) ==
    LET items == [i \in DOMAIN value.items |-> deserialize_CheckerT(value.items[i])]
        all_ok == \A i \in DOMAIN items : items[i].ok
    IN IF value.kind = "list" /\ Len(items) > 0 /\ all_ok
       THEN [ok |-> TRUE, v |-> [tag |-> "Many", items |-> [i \in DOMAIN items |-> items[i].v]]]
       ELSE IF value.kind = "map" /\ all_ok
       THEN [ok |-> TRUE, v |-> [tag |-> "One", items |-> <<items[1].v>>]]
       ELSE [ok |-> FALSE, err |-> "data did not match any variant"]

\* rule.rs:402-408
validate_checker(c) ==
    IF c.name = "" THEN [ok |-> FALSE, err |-> "NoCheckName"]
    ELSE [ok |-> TRUE, v |-> c]

\* rule.rs:422-455  build_regex_mapping, by its outcome on the regexes field.
build_regex_mapping(regexes) ==
    IF regexes = "no_equals" THEN [ok |-> FALSE, err |-> "InvalidFormat"]
    ELSE IF regexes = "bad_regex" THEN [ok |-> FALSE, err |-> "InvalidRegex"]
    ELSE [ok |-> TRUE, v |-> regexes]

\* rule.rs:410-419  build_pattern: weggli::parse_search_pattern(&input, cxx, ..)
build_pattern(input, cxx) ==
    IF cxx \in input.compiles
    THEN [ok |-> TRUE, v |-> [text |-> input.text, cxx |-> cxx,
                              identifiers |-> input.identifiers]]
    ELSE [ok |-> FALSE, err |-> "Pattern"]

\* rule.rs:457-479  impl TryFrom<CheckerT> for Checker
Checker_try_from(c) ==
    LET regexes == build_regex_mapping(c.regexes)
        built == build_pattern(c.pattern, is_cxx(c.language))
    IN IF ~regexes.ok THEN [ok |-> FALSE, err |-> regexes.err]
       ELSE IF ~built.ok THEN [ok |-> FALSE, err |-> built.err]
       ELSE IF regexes.v = "unbound_var" THEN [ok |-> FALSE, err |-> "InvalidQueryVariable"]
       ELSE [ok |-> TRUE,
             v |-> [name |-> c.name,
                    language |-> c.language,
                    identifiers |-> built.v.identifiers,
                    pattern |-> [text |-> built.v.text, cxx |-> built.v.cxx],
                    limit |-> c.limit,
                    unique |-> c.unique]]

\* Changed names_insert: the name is never recorded.
names_insert_forget(names, name) == [fresh |-> name \notin names, names |-> names]

\* rule.rs:497  names.insert(checker.name.to_owned())
names_insert(names, name) == [fresh |-> name \notin names, names |-> names \cup {name}]

\* rule.rs:490-505  the loop of the Many arm, from item i on.
RECURSIVE many_try_from(_, _, _, _)
many_try_from(checkers, i, names, checks) ==
    IF i > Len(checkers) THEN [ok |-> TRUE, v |-> checks]
    ELSE LET valid == validate_checker(checkers[i])
         IN IF ~valid.ok THEN [ok |-> FALSE, err |-> valid.err]
            ELSE LET ins == names_insert(names, valid.v.name)
                     conv == Checker_try_from(valid.v)
                 IN IF ~ins.fresh THEN [ok |-> FALSE, err |-> "MultipleChecksWithSameName"]
                    ELSE IF ~conv.ok THEN [ok |-> FALSE, err |-> conv.err]
                    ELSE many_try_from(checkers, i + 1, ins.names, Append(checks, conv.v))

\* rule.rs:481-508  impl TryFrom<OneOrMany<CheckerT>> for Vec<Checker>
Vec_try_from(value) ==
    IF value.tag = "One"
    THEN LET valid == validate_checker(value.items[1])
         IN IF ~valid.ok THEN [ok |-> FALSE, err |-> valid.err]
            ELSE LET conv == Checker_try_from(valid.v)
                 IN IF ~conv.ok THEN [ok |-> FALSE, err |-> conv.err]
                    ELSE [ok |-> TRUE, v |-> <<conv.v>>]
    ELSE many_try_from(value.items, 1, {}, <<>>)

\* Changed ChecksKeys: the rename alone, none of the aliases.
ChecksKeysRenameOnly == {"check patterns"}

\* rule.rs:239-244  the accepted spellings of the checks key
ChecksKeys == {"check patterns", "check-patterns", "check pattern", "check-pattern"}

\* rule.rs:223-267  impl Deserialize for Rule
Rule_deserialize(d) ==
    IF d.id = "absent" THEN [ok |-> FALSE, err |-> "missing field id"]
    ELSE IF d.key \notin ChecksKeys THEN [ok |-> FALSE, err |-> "missing field check patterns"]
    ELSE LET checksT == deserialize_OneOrMany(d.checks)
         IN IF ~checksT.ok THEN [ok |-> FALSE, err |-> checksT.err]
            ELSE IF d.id = "" THEN [ok |-> FALSE, err |-> "NoId"]
            ELSE LET checks == Vec_try_from(checksT.v)
                 IN IF ~checks.ok THEN [ok |-> FALSE, err |-> checks.err]
                    ELSE [ok |-> TRUE, v |-> [id |-> d.id, checks |-> checks.v]]

\* rule.rs:182-184  Rule::from_str
Rule_from_str(d) ==
    LET r == Rule_deserialize(d)
    IN IF r.ok THEN r ELSE [ok |-> FALSE, err |-> [kind |-> "Parse", cause |-> r.err]]

----------------------------------------------------------------------------
(* SpecLoad *)

CheckDoc(n, l, p, r) ==
    [name |-> n, language |-> l, pattern |-> p, regexes |-> r,
     limit |-> FALSE, unique |-> FALSE]

NameFields == {"absent", "", "gets", "scanf"}
LanguageFields == {"absent", "c", "c++", "C++", "C"}

CheckDocs ==
    {CheckDoc(n, l, PatGets, "absent") : n \in NameFields, l \in LanguageFields}
    \cup {CheckDoc("gets", "absent", PatBad, "absent"),
          CheckDoc("gets", "absent", PatGets, "unbound_var"),
          CheckDoc("gets", "c", PatCxx, "absent")}

ChecksValues ==
    {[kind |-> "map", items |-> <<c>>] : c \in CheckDocs}
    \cup {[kind |-> "list", items |-> cs] : cs \in SeqsUpTo(CheckDocs, MaxChecks)}

RuleDocs ==
    [id : {"absent", "", "r"}, key : ChecksKeys \cup {"checks"}, checks : ChecksValues]

LoadIdle ==
    /\ doc = [id |-> "absent", key |-> "checks",
              checks |-> [kind |-> "list", items |-> <<>>]]
    /\ loaded = NoResult
    /\ lpc = "idle"

LoadInit ==
    /\ doc \in RuleDocs
    /\ loaded = NoResult
    /\ lpc = "ready"

FromStr ==
    /\ lpc = "ready"
    /\ loaded' = Rule_from_str(doc)
    /\ lpc' = "done"
    /\ UNCHANGED doc

----------------------------------------------------------------------------
(* RuleSet::from_directory, rule.rs:66-100, over the entries WalkDir yields. *)
(* An entry is a walk error, a directory or a file; a file has an            *)
(* extension and a content: "unreadable" (File::open fails), "garbled"       *)
(* (not YAML) or "yaml" with the rule document read. The path of entry i is  *)
(* i.                                                                        *)

\* rule.rs:175-180  Rule::from_file: both failures are ParseFile(path, ..)
Rule_from_file(path, content) ==
    IF content.state = "unreadable"
    THEN [ok |-> FALSE, err |-> [kind |-> "ParseFile", path |-> path, cause |-> "io"]]
    ELSE IF content.state = "garbled"
    THEN [ok |-> FALSE, err |-> [kind |-> "ParseFile", path |-> path, cause |-> "yaml"]]
    ELSE LET r == Rule_deserialize(content.doc)
         IN IF r.ok THEN r
            ELSE [ok |-> FALSE,
                  err |-> [kind |-> "ParseFile", path |-> path, cause |-> r.err]]

\* rule.rs:72-77  the filter_entry predicate
filter_entry(e) == e.kind = "dir" \/ e.ext \in {"yml", "yaml"}

\* Changed on_error: the error is returned whatever ignore_errors says.
on_error_always(ignore, e) == [return |-> TRUE, err |-> e]

\* rule.rs:89-93  the Err arm: return Err(e) unless ignore_errors
on_error(ignore, e) == IF ~ignore THEN [return |-> TRUE, err |-> e] ELSE [return |-> FALSE]

\* rule.rs:70-95  the loop, from entry i on, with the map built so far.
\* rule.rs:78 drops the walk's own errors; rule.rs:80-82 skips directories.
RECURSIVE walk_from(_, _, _, _)
walk_from(w, i, ignore, map) ==
    IF i > Len(w) THEN [ok |-> TRUE, v |-> map]
    ELSE LET e == w[i]
         IN IF e.kind = "err" \/ ~filter_entry(e) \/ e.kind = "dir"
            THEN walk_from(w, i + 1, ignore, map)
            ELSE LET r == Rule_from_file(i, e.content)
                 IN IF r.ok
                    THEN walk_from(w, i + 1, ignore,
                                   [k \in DOMAIN map \cup {i} |->
                                       IF k = i THEN r.v ELSE map[k]])
                    ELSE LET h == on_error(ignore, r.err)
                         IN IF h.return THEN [ok |-> FALSE, err |-> h.err]
                            ELSE walk_from(w, i + 1, ignore, map)

\* rule.rs:66-100
from_directory(w, ignore) == walk_from(w, 1, ignore, <<>>)

----------------------------------------------------------------------------
(* SpecDir *)

OneCheck(c) == [kind |-> "map", items |-> <<c>>]
ManyChecks(cs) == [kind |-> "list", items |-> cs]

DocGets == [id |-> "gets", key |-> "check-patterns",
            checks |-> OneCheck(CheckDoc("absent", "absent", PatGets, "absent"))]
DocTwin == [id |-> "twin", key |-> "check-patterns",
            checks |-> ManyChecks(<<CheckDoc("gets", "c", PatGets, "absent"),
                                    CheckDoc("gets", "c", PatBoth, "absent")>>)]
DocNoId == [id |-> "", key |-> "check pattern",
            checks |-> OneCheck(CheckDoc("gets", "c", PatGets, "absent"))]

NoDoc == [id |-> "absent", key |-> "checks", checks |-> ManyChecks(<<>>)]

Yaml(d) == [state |-> "yaml", doc |-> d]
Garbled == [state |-> "garbled", doc |-> NoDoc]
Unreadable == [state |-> "unreadable", doc |-> NoDoc]

File(ext, content) == [kind |-> "file", ext |-> ext, content |-> content]

DirEntries ==
    {[kind |-> "err", ext |-> "", content |-> Unreadable],
     [kind |-> "dir", ext |-> "", content |-> Unreadable],
     [kind |-> "dir", ext |-> "yml", content |-> Unreadable],
     File("txt", Yaml(DocGets)), File("yml", Yaml(DocGets)), File("yaml", Yaml(DocGets)),
     File("yml", Yaml(DocTwin)), File("yaml", Yaml(DocNoId)),
     File("yml", Garbled), File("yaml", Unreadable)}

DirIdle ==
    /\ walk = <<>>
    /\ ignore_errors = FALSE
    /\ ruleset = NoResult
    /\ dpc = "idle"

DirInit ==
    /\ walk \in SeqsUpTo(DirEntries, MaxFiles)
    /\ ignore_errors \in BOOLEAN
    /\ ruleset = NoResult
    /\ dpc = "ready"

FromDirectory ==
    /\ dpc = "ready"
    /\ ruleset' = from_directory(walk, ignore_errors)
    /\ dpc' = "done"
    /\ UNCHANGED <<walk, ignore_errors>>

----------------------------------------------------------------------------
(* RuleMatcher, matcher.rs:11-173, and what it calls in rule.rs.           *)

Sources == {<<"g", "s">>, <<"s", "g">>, <<"s">>}

\* memchr::memmem::find(haystack, needle).is_some()
memmem_find(haystack, needle) ==
    \E i \in 0..(Len(haystack) - Len(needle)) :
        \A j \in 1..Len(needle) : haystack[i + j] = needle[j]

\* rule.rs:322-326  Checker::can_match
can_match(c, source) ==
    \A k \in DOMAIN c.identifiers : memmem_find(source, c.identifiers[k])

\* Changed viable_in_rule: every checker is taken, can_match is not asked.
RECURSIVE viable_in_rule_all(_, _, _, _, _)
viable_in_rule_all(key, rule_id, rule, i, source) ==
    IF i >= Len(rule.checks) THEN <<>>
    ELSE << [rule_id |-> rule_id, rule |-> rule, checker_id |-> i,
             checker |-> rule.checks[i + 1], fired |-> [key |-> key, index |-> i]] >>
         \o viable_in_rule_all(key, rule_id, rule, i + 1, source)

\* rule.rs:131-137  the enumerate().filter_map() over one rule's checks, from
\* checker index i (0-based) on. matcher.rs:156 takes each element apart as
\* (rule_id, rule, checker_id, checker); rule_id is the rule's position in the
\* values() iteration. fired records where the iteration stood when the element
\* was made: it is not a field of the program.
RECURSIVE viable_in_rule(_, _, _, _, _)
viable_in_rule(key, rule_id, rule, i, source) ==
    IF i >= Len(rule.checks) THEN <<>>
    ELSE LET c == rule.checks[i + 1]
             here == IF can_match(c, source)
                     THEN << [rule_id |-> rule_id, rule |-> rule, checker_id |-> i,
                              checker |-> c, fired |-> [key |-> key, index |-> i]] >>
                     ELSE <<>>
         IN here \o viable_in_rule(key, rule_id, rule, i + 1, source)

\* rule.rs:128-140  self.rules.values().map(..).flatten(), from position n on.
RECURSIVE viable_from(_, _, _, _)
viable_from(rs, ord, n, source) ==
    IF n >= Len(ord) THEN <<>>
    ELSE viable_in_rule(ord[n + 1], n, rs[ord[n + 1]], 0, source)
         \o viable_from(rs, ord, n + 1, source)

\* rule.rs:125-141  RuleSet::viable_checkers
viable_checkers(rs, ord, source) == viable_from(rs, ord, 0, source)

\* matcher.rs:96-97  the language each parser was built for
ParserLanguage(parser) == IF parser = "cxx_parser" THEN "Cplusplus" ELSE "C"

\* Changed select_parser: the C++ parser whatever the flag.
select_parser_cxx(cxx) == "cxx_parser"

\* matcher.rs:141-145
select_parser(cxx) == IF cxx THEN "cxx_parser" ELSE "c_parser"

\* Changed parse_failed: a missing tree reported as an error.
parse_failed_err(steps) == [steps |-> steps, ret |-> [ok |-> FALSE, err |-> [kind |-> "Parser"]]]

\* matcher.rs:148-150  let Some(tree) = tree else { return Ok(Vec::with_capacity(0)) }
parse_failed(steps) == [steps |-> steps, ret |-> [ok |-> TRUE, v |-> <<>>]]

\* matcher.rs:161-167  one RuleMatch per kept result
RuleMatch(t, source, result) ==
    [rule |-> t.rule, rule_id |-> t.rule_id, checker_id |-> t.checker_id,
     source |-> source, result |-> result, fired |-> t.fired]

\* matcher.rs:154-169  the flat_map over the viable checkers, from position i on,
\* with the results and steps so far. eng gives pattern.matches(tree.root_node(),
\* source) for each pattern run against tree; skip is the storage check_match's
\* skip_set is created in.
RECURSIVE run_checkers(_, _, _, _, _, _, _, _)
run_checkers(checkers, i, tree, source, eng, skip, results, steps) ==
    IF i > Len(checkers) THEN [results |-> results, steps |-> steps, skip_set |-> skip]
    ELSE LET t == checkers[i]
             r == check_match(t.checker, eng[<<t.checker.pattern, tree>>], skip)
         IN run_checkers(checkers, i + 1, tree, source, eng, r.skip_set,
                results \o [k \in DOMAIN r.kept |-> RuleMatch(t, source, r.kept[k])],
                Append(steps, [op |-> "check_match", fired |-> t.fired,
                               language |-> t.checker.language, tree |-> tree]))

\* matcher.rs:26-40  the accessors of RuleMatch
RuleMatch_rule(m) == m.rule
RuleMatch_rule_id(m) == m.rule_id
RuleMatch_checker_id(m) == m.rule_id
RuleMatch_checker(m) ==
    IF m.checker_id < Len(m.rule.checks)
    THEN [panic |-> FALSE, v |-> m.rule.checks[m.checker_id + 1]]
    ELSE [panic |-> TRUE]

\* matcher.rs:128-172  RuleMatcher::matches_with, by the value it returns and the
\* steps it takes. tree_opt is what Parser::parse returns for (source, parser) and
\* eng what QueryTree::matches returns; both are only read when the code calls them.
matches_with(rs, ord, source, cxx, tree_opt, eng, skip) ==
    LET checkers == viable_checkers(rs, ord, source)
        parser == select_parser(cxx)
        tree == [source |-> source, language |-> ParserLanguage(parser)]
        s1 == << [op |-> "viable_checkers"] >>
        s2 == Append(s1, [op |-> "parse", parser |-> parser])
    IN IF checkers = <<>>
       THEN [steps |-> s1, ret |-> [ok |-> TRUE, v |-> <<>>], skip_set |-> skip]
       ELSE IF tree_opt = "none"
       THEN LET r == parse_failed(s2)
            IN [steps |-> r.steps, ret |-> r.ret, skip_set |-> skip]
       ELSE LET run == run_checkers(checkers, 1, tree, source, eng, skip, <<>>, s2)
            IN [steps |-> run.steps,
                ret |-> [ok |-> TRUE, v |-> run.results],
                skip_set |-> run.skip_set]

----------------------------------------------------------------------------
(* Spec: the external parser and query engine are deterministic but         *)
(* otherwise unconstrained: the first time one is asked a question its      *)
(* answer is chosen freely, and the same question gets the same answer from *)
(* then on.                                                                 *)

WithFlags(c, lim, uni) == [c EXCEPT !.limit = lim, !.unique = uni]

DocA == [id |-> "A", key |-> "check-patterns",
         checks |-> ManyChecks(
             <<WithFlags(CheckDoc("gets", "c", PatGets, "absent"), TRUE, FALSE),
               WithFlags(CheckDoc("both", "c++", PatBoth, "absent"), FALSE, TRUE)>>)]
DocB == [id |-> "B", key |-> "check pattern",
         checks |-> OneCheck(
             WithFlags(CheckDoc("absent", "c++", PatCxx, "absent"), TRUE, TRUE))]

MatcherWalks ==
    { <<File("yml", Yaml(DocA))>>,
      <<[kind |-> "dir", ext |-> "", content |-> Unreadable],
        File("yml", Yaml(DocA)), File("yml", Garbled), File("yaml", Yaml(DocB))>> }

Parsers == {"c_parser", "cxx_parser"}
Trees == [source : Sources, language : {"C", "Cplusplus"}]

QR(off, vs) == [start_offset |-> off, vars |-> vs]
Bind1(x) == [k \in {"x"} |-> x]
Bind2(x, y) == [k \in {"x", "y"} |-> IF k = "x" THEN x ELSE y]

Streams ==
    { <<>>,
      <<QR(10, Bind2("a", "a")), QR(10, Bind2("a", "b")), QR(10, Bind1("b")),
        QR(20, Bind1("b"))>> }

\* The checkers of a RuleSet.
CheckersOf(rs) == UNION {Range(rs[k].checks) : k \in DOMAIN rs}

Orders(S) ==
    {p \in [1..Cardinality(S) -> S] : \A i, j \in DOMAIN p : i # j => p[i] # p[j]}

MatchInit ==
    /\ \E w \in MatcherWalks : rules = from_directory(w, TRUE).v
    /\ order \in Orders(DOMAIN rules)
    /\ trees = [k \in Sources \X Parsers |-> "unknown"]
    /\ engine = [k \in {c.pattern : c \in CheckersOf(rules)} \X Trees
                   |-> [known |-> FALSE, v |-> <<>>]]
    /\ skip_set = {}
    /\ call = [source |-> <<>>, is_cxx |-> FALSE, steps |-> <<>>,
               ret |-> [ok |-> TRUE, v |-> <<>>]]
    /\ first = [k \in Sources \X BOOLEAN |-> [known |-> FALSE, ret |-> [ok |-> TRUE, v |-> <<>>]]]
    /\ ncalls = 0

MatchIdle ==
    /\ rules = <<>>
    /\ order = <<>>
    /\ trees = <<>>
    /\ engine = <<>>
    /\ skip_set = {}
    /\ call = [source |-> <<>>, is_cxx |-> FALSE, steps |-> <<>>,
               ret |-> [ok |-> TRUE, v |-> <<>>]]
    /\ first = <<>>
    /\ ncalls = 0

\* The questions the code puts to the query engine when it runs the checkers
\* `checkers` against `tree`.
EngineAsked(checkers, tree) == {<<t.checker.pattern, tree>> : t \in Range(checkers)}

\* A call's record: arguments, steps, return value.
Returned(source, cxx, r) ==
    /\ skip_set' = r.skip_set
    /\ call' = [source |-> source, is_cxx |-> cxx, steps |-> r.steps, ret |-> r.ret]
    /\ first' = IF first[<<source, cxx>>].known THEN first
                ELSE [first EXCEPT ![<<source, cxx>>] = [known |-> TRUE, ret |-> r.ret]]
    /\ ncalls' = ncalls + 1

\* One call of matches_with(source, cxx) on the RuleMatcher. The parser is asked
\* only when some checker is viable, the engine only when the parser gave a tree.
MatchesWith(source, cxx) ==
    /\ ncalls < MaxCalls
    /\ LET checkers == viable_checkers(rules, order, source)
           parser == select_parser(cxx)
           tree == [source |-> source, language |-> ParserLanguage(parser)]
       IN IF checkers = <<>>
          THEN /\ Returned(source, cxx,
                      matches_with(rules, order, source, cxx, "none", <<>>, skip_set))
               /\ UNCHANGED <<trees, engine>>
          ELSE \E tree_opt \in {"none", "tree"} :
                 /\ trees[<<source, parser>>] \in {"unknown", tree_opt}
                 /\ trees' = [trees EXCEPT ![<<source, parser>>] = tree_opt]
                 /\ LET needed == IF tree_opt = "none" THEN {}
                                  ELSE EngineAsked(checkers, tree)
                    IN \E answers \in [needed -> Streams] :
                         /\ \A k \in needed : engine[k].known => answers[k] = engine[k].v
                         /\ engine' = [k \in DOMAIN engine |->
                                         IF k \in needed
                                         THEN [known |-> TRUE, v |-> answers[k]]
                                         ELSE engine[k]]
                         /\ Returned(source, cxx,
                                matches_with(rules, order, source, cxx, tree_opt,
                                             answers, skip_set))
    /\ UNCHANGED <<rules, order>>

\* matcher.rs:124-126  matches(source) is matches_with(source, true)
Matches(source) == MatchesWith(source, TRUE)

MatchNext ==
    \/ \E source \in Sources, cxx \in BOOLEAN :
          MatchesWith(source, cxx) /\ UNCHANGED <<filterVars, loadVars, dirVars>>
    \/ \E source \in Sources :
          Matches(source) /\ UNCHANGED <<filterVars, loadVars, dirVars>>

----------------------------------------------------------------------------
(* The specifications *)

Init == MatchInit /\ FilterIdle /\ LoadIdle /\ DirIdle
Next == MatchNext
Spec == Init /\ [][Next]_vars

InitFilter == FilterInit /\ LoadIdle /\ DirIdle /\ MatchIdle
NextFilter == CheckMatch /\ UNCHANGED <<loadVars, dirVars, matchVars>>
SpecFilter == InitFilter /\ [][NextFilter]_vars

InitLoad == LoadInit /\ FilterIdle /\ DirIdle /\ MatchIdle
NextLoad == FromStr /\ UNCHANGED <<filterVars, dirVars, matchVars>>
SpecLoad == InitLoad /\ [][NextLoad]_vars

InitDir == DirInit /\ FilterIdle /\ LoadIdle /\ MatchIdle
NextDir == FromDirectory /\ UNCHANGED <<filterVars, loadVars, matchVars>>
SpecDir == InitDir /\ [][NextDir]_vars

----------------------------------------------------------------------------
(* Properties *)

\* The captured values of a match and whether they are pairwise distinct.
ValuesOf(m) == {m.vars[k] : k \in DOMAIN m.vars}
DistinctValues(m) == Cardinality(ValuesOf(m)) = Cardinality(DOMAIN m.vars)

\* The values captured by the matches before position i of a stream.
ObservedBefore(ms, i) == UNION {ValuesOf(ms[j]) : j \in 1..(i - 1)}

\* The positions of ms that are the first with their start offset among those in I.
FirstAtOffset(ms, I) ==
    {i \in I : \A j \in I : j < i => ms[j].start_offset # ms[i].start_offset}

UniqueOnly == fpc = "done" /\ checker.unique /\ ~checker.limit
LimitOnly  == fpc = "done" /\ checker.limit /\ ~checker.unique

\* C1 (as claimed): with unique = true and limit = false, check_match keeps a match
\* iff at least one of its captured values was not observed in an earlier match of
\* the same pass (one running set shared by the whole result sequence).
C1_RunningSetUnique ==
    UniqueOnly =>
        kept = PickFrom(matches, 1,
                   {i \in DOMAIN matches :
                       ValuesOf(matches[i]) \ ObservedBefore(matches, i) # {}})

\* C1 (amended): with unique = true and limit = false, check_match tests every match
\* on its own, with a set that is empty at the start of each match: a match is kept
\* iff its captured values are pairwise distinct, whatever earlier matches captured,
\* and the kept matches keep the engine's order.
C1_UniqueIsPerMatch ==
    UniqueOnly =>
        kept = PickFrom(matches, 1, {i \in DOMAIN matches : DistinctValues(matches[i])})

\* C1 witness: the stream {x:a}, {x:a}, {x:b, y:a} has been filtered and all three
\* matches were kept.
C1_Witness ==
    /\ UniqueOnly
    /\ Len(matches) = 3
    /\ matches[1].vars = Bind1("a")
    /\ matches[2].vars = Bind1("a")
    /\ matches[3].vars = Bind2("b", "a")
    /\ kept = matches

\* C2: with limit = true and unique = false, check_match returns exactly the first
\* match at each distinct start offset, in the engine's order.
C2_LimitFirstPerOffset ==
    LimitOnly => kept = PickFrom(matches, 1, FirstAtOffset(matches, DOMAIN matches))

\* C2 witness: offsets 10, 10, 20 with two different matches at offset 10 have been
\* filtered; the first and the third match were kept.
C2_Witness ==
    /\ LimitOnly
    /\ Len(matches) = 3
    /\ matches[1].start_offset = 10
    /\ matches[2].start_offset = 10
    /\ matches[3].start_offset = 20
    /\ matches[1] # matches[2]
    /\ kept = <<matches[1], matches[3]>>

UniqueAndLimit == fpc = "done" /\ checker.unique /\ checker.limit

\* The positions of ms whose match passes the unique test.
PassUnique(ms) == {i \in DOMAIN ms : DistinctValues(ms[i])}

\* Some start offset of ms has a first match that fails the unique test and a later
\* match that passes it.
ShadowedOffset(ms) ==
    \E i, j \in DOMAIN ms :
        /\ i < j
        /\ ms[i].start_offset = ms[j].start_offset
        /\ i \in FirstAtOffset(ms, DOMAIN ms)
        /\ i \notin PassUnique(ms)
        /\ j \in PassUnique(ms)

\* C12 (as claimed): with unique = true and limit = true, check_match keeps exactly
\* the matches that the limit test followed by the unique test keeps: those that
\* pass the unique test and are the first match at their start offset.
C12_OrderIndependent ==
    UniqueAndLimit =>
        /\ kept = filter_limit_first(checker, matches, 1, {}, <<>>).kept
        /\ kept = PickFrom(matches, 1,
                      PassUnique(matches) \cap FirstAtOffset(matches, DOMAIN matches))

\* C12 (amended): with unique = true and limit = true, check_match records a start
\* offset only for a match that passed the unique test, so it keeps the first match
\* at each start offset among those that pass the unique test. Testing limit first
\* keeps a part of that list, and the same list exactly when no start offset has a
\* first match that fails the unique test and a later one that passes it.
C12_UniqueThenLimit ==
    UniqueAndLimit =>
        LET other == filter_limit_first(checker, matches, 1, {}, <<>>).kept
        IN /\ kept = PickFrom(matches, 1, FirstAtOffset(matches, PassUnique(matches)))
           /\ other = PickFrom(matches, 1,
                          PassUnique(matches) \cap FirstAtOffset(matches, DOMAIN matches))
           /\ Range(other) \subseteq Range(kept)
           /\ (kept = other) <=> ~ShadowedOffset(matches)

\* C12 witness: two matches at one start offset have been filtered, the first
\* binding both variables to the same text and the second to different texts; the
\* second was kept, and testing limit first would have kept nothing.
C12_Witness ==
    /\ UniqueAndLimit
    /\ Len(matches) = 2
    /\ matches[1].start_offset = matches[2].start_offset
    /\ matches[1].vars = Bind2("a", "a")
    /\ matches[2].vars = Bind2("a", "b")
    /\ kept = <<matches[2]>>
    /\ filter_limit_first(checker, matches, 1, {}, <<>>).kept = <<>>

----------------------------------------------------------------------------
(* Properties of rule loading *)

\* The name a check of a document ends up with (absent: "default").
EffectiveName(cd) == IF cd.name = "absent" THEN "default" ELSE cd.name

\* A check that is valid whatever its language field says, if that is a spelling
\* the documentation lists.
ValidCheck(cd) ==
    /\ cd.name # ""
    /\ cd.language \in {"absent", "c", "c++", "C++"}
    /\ cd.pattern.compiles = {FALSE, TRUE}
    /\ cd.regexes = "absent"

ValidFrame(d) == d.id \notin {"absent", ""} /\ d.key \in ChecksKeys

DuplicateNames(d) ==
    /\ d.checks.kind = "list"
    /\ \E i, j \in DOMAIN d.checks.items :
          i # j /\ EffectiveName(d.checks.items[i]) = EffectiveName(d.checks.items[j])

\* C8 (as claimed): the language field "C++" and "c++" both give the C++ variant
\* (CheckerLanguage::Cplusplus, pattern compiled with cxx = true), "c" gives C and
\* an absent field gives C.
C8_LanguageSpellings ==
    (/\ lpc = "done"
     /\ ValidFrame(doc)
     /\ doc.checks.kind = "map"
     /\ ValidCheck(doc.checks.items[1]))
    => /\ loaded.ok
       /\ LET l == doc.checks.items[1].language
              c == loaded.v.checks[1]
          IN IF l \in {"C++", "c++"}
             THEN c.language = "Cplusplus" /\ c.pattern.cxx
             ELSE c.language = "C" /\ ~c.pattern.cxx

\* C9: a loaded Rule has at least one check, every check name is non-empty and the
\* names are pairwise distinct; a document whose check list holds two checks of
\* the same name never loads, and when it is otherwise valid the load fails with
\* MultipleChecksWithSameName.
C9_ChecksNamedAndDistinct ==
    lpc = "done" =>
        /\ loaded.ok =>
              /\ Len(loaded.v.checks) >= 1
              /\ \A i \in DOMAIN loaded.v.checks : loaded.v.checks[i].name # ""
              /\ \A i, j \in DOMAIN loaded.v.checks :
                    i # j => loaded.v.checks[i].name # loaded.v.checks[j].name
        /\ DuplicateNames(doc) => ~loaded.ok
        /\ (/\ DuplicateNames(doc)
            /\ ValidFrame(doc)
            /\ \A i \in DOMAIN doc.checks.items : ValidCheck(doc.checks.items[i]))
           => loaded.err.cause = "MultipleChecksWithSameName"

\* C9 witness: a valid document that lists two checks both named "gets" has been
\* loaded and the load failed with the duplicate-name error.
C9_Witness ==
    /\ lpc = "done"
    /\ ValidFrame(doc)
    /\ doc.checks.kind = "list"
    /\ Len(doc.checks.items) = 2
    /\ \A i \in DOMAIN doc.checks.items :
          doc.checks.items[i].name = "gets" /\ ValidCheck(doc.checks.items[i])
    /\ ~loaded.ok
    /\ loaded.err.cause = "MultipleChecksWithSameName"

\* The rule files of a walk (regular files named *.yml or *.yaml) and, of those,
\* the ones that parse and validate.
RuleFiles(w) == {i \in DOMAIN w : w[i].kind = "file" /\ w[i].ext \in {"yml", "yaml"}}
GoodFiles(w) ==
    {i \in RuleFiles(w) : w[i].content.state = "yaml" /\ Rule_deserialize(w[i].content.doc).ok}
BadFiles(w) == RuleFiles(w) \ GoodFiles(w)

\* C10: with ignore_errors = true from_directory succeeds and the RuleSet holds
\* exactly one entry per rule file that parses and validates, keyed by its path;
\* with ignore_errors = false it returns the error of the first failing rule file in
\* traversal order, annotated with that file's path, and no RuleSet.
C10_DirectoryLoad ==
    dpc = "done" =>
        IF ignore_errors \/ BadFiles(walk) = {}
        THEN /\ ruleset.ok
             /\ DOMAIN ruleset.v = GoodFiles(walk)
             /\ \A i \in GoodFiles(walk) :
                   ruleset.v[i] = Rule_deserialize(walk[i].content.doc).v
        ELSE LET bad == CHOOSE i \in BadFiles(walk) : \A j \in BadFiles(walk) : i <= j
             IN /\ ~ruleset.ok
                /\ ruleset.err.kind = "ParseFile"
                /\ ruleset.err.path = bad
                /\ ruleset.err = Rule_from_file(bad, walk[bad].content).err

\* C10 witness: a valid rule file followed by two failing ones has been loaded with
\* ignore_errors = false, and the error returned is that of the first failing file.
C10_Witness ==
    /\ dpc = "done"
    /\ ~ignore_errors
    /\ Len(walk) = 3
    /\ GoodFiles(walk) = {1}
    /\ BadFiles(walk) = {2, 3}
    /\ walk[2].content # walk[3].content
    /\ ~ruleset.ok
    /\ ruleset.err.path = 2

\* The four spellings of the checks key that the documentation lists.
FourSpellings == {"check pattern", "check patterns", "check-pattern", "check-patterns"}

\* The document d with its checks given as the list cs under the key k, and with
\* its checks given as the bare mapping cd.
AsList(d, k, cs) == [id |-> d.id, key |-> k, checks |-> ManyChecks(cs)]
AsBare(d, cd) == [id |-> d.id, key |-> d.key, checks |-> OneCheck(cd)]

BareDoc == lpc = "done" /\ doc.key \in FourSpellings /\ doc.checks.kind = "map"
ListDoc == lpc = "done" /\ doc.key \in FourSpellings /\ doc.checks.kind = "list"

\* C11: a document that gives one check as a bare mapping loads, when it is valid,
\* to a Rule with exactly one Checker; the document that gives the same check as a
\* one-element list, under any of the four key spellings, has the same outcome (the
\* identical Rule, or the identical error when the bare form is rejected); and a
\* list of n valid checks with distinct names loads to a Rule with exactly n
\* Checkers, the i-th being the Checker the i-th check gives on its own.
C11_SchemaEquivalence ==
    /\ BareDoc =>
          /\ (ValidFrame(doc) /\ ValidCheck(doc.checks.items[1])) => loaded.ok
          /\ loaded.ok => Len(loaded.v.checks) = 1
          /\ \A k \in FourSpellings :
                Rule_from_str(AsList(doc, k, doc.checks.items)) = loaded
    /\ (/\ ListDoc
        /\ ValidFrame(doc)
        /\ doc.checks.items # <<>>
        /\ \A i \in DOMAIN doc.checks.items : ValidCheck(doc.checks.items[i])
        /\ ~DuplicateNames(doc))
       => /\ loaded.ok
          /\ Len(loaded.v.checks) = Len(doc.checks.items)
          /\ \A i \in DOMAIN doc.checks.items :
                LET alone == Rule_from_str(AsBare(doc, doc.checks.items[i]))
                IN alone.ok /\ loaded.v.checks[i] = alone.v.checks[1]

\* C11 witness: a valid bare-mapping document under the key "check pattern" has
\* been loaded to a Rule with one Checker, and its one-element-list form under
\* "check-patterns" loads to that same Rule.
C11_Witness ==
    /\ BareDoc
    /\ doc.key = "check pattern"
    /\ ValidFrame(doc)
    /\ ValidCheck(doc.checks.items[1])
    /\ loaded.ok
    /\ Len(loaded.v.checks) = 1
    /\ Rule_from_str(AsList(doc, "check-patterns", doc.checks.items)) = loaded

----------------------------------------------------------------------------
(* Properties of the RuleMatcher *)

CheckMatchSteps == {i \in DOMAIN call.steps : call.steps[i].op = "check_match"}
ParseSteps == {i \in DOMAIN call.steps : call.steps[i].op = "parse"}

\* The latest call asked a parser for a tree and got none.
ParseReturnedNone ==
    \E i \in ParseSteps : trees[<<call.source, call.steps[i].parser>>] = "none"

\* C4: matches_with never returns an error; when the selected parser returns no
\* tree the call returns Ok with an empty list. This holds of every call of a
\* sequence, so also of the calls that follow one whose parse failed.
C4_ParseFailureIsEmptyOk ==
    ncalls > 0 =>
        /\ call.ret.ok
        /\ ParseReturnedNone => call.ret.v = <<>>

\* C4 witness: a call whose parse returned no tree has returned Ok([]), and a
\* later call on the same matcher has returned matches.
C4_Witness ==
    /\ ncalls = 2
    /\ call.ret.ok
    /\ call.ret.v # <<>>
    /\ \E s \in Sources, cxx \in BOOLEAN :
          /\ trees[<<s, select_parser(cxx)>>] = "none"
          /\ first[<<s, cxx>>] = [known |-> TRUE, ret |-> [ok |-> TRUE, v |-> <<>>]]

\* What one Checker's pass must return for the engine's sequence ms when no state
\* of another pass reaches it: the matches that pass the unique test, and with
\* limit only the first of them at each start offset.
IsolatedPass(c, ms) ==
    LET U == {i \in DOMAIN ms : ~c.unique \/ DistinctValues(ms[i])}
    IN PickFrom(ms, 1, IF c.limit THEN FirstAtOffset(ms, U) ELSE U)

\* The results of the latest call that the Checker at f fired, in order.
ResultsFiredBy(f) ==
    LET picked == PickFrom(call.ret.v, 1, {i \in DOMAIN call.ret.v : call.ret.v[i].fired = f})
    IN [i \in DOMAIN picked |-> picked[i].result]

Idempotent ==
    ncalls > 0 => call.ret = first[<<call.source, call.is_cxx>>].ret

PassesIsolated ==
    \A i \in CheckMatchSteps :
        LET s == call.steps[i]
            c == rules[s.fired.key].checks[s.fired.index + 1]
        IN ResultsFiredBy(s.fired) = IsolatedPass(c, engine[<<c.pattern, s.tree>>].v)

\* C5: after any sequence of matches_with calls, a call with (source, flag) returns
\* the same ordered list as the first call with that (source, flag) did; no call
\* changes the RuleSet; and what a Checker's pass returns is what it returns with
\* no dedup state carried over from another Checker's pass or an earlier call.
C5_Idempotent ==
    /\ [](Idempotent /\ PassesIsolated)
    /\ [][rules' = rules /\ order' = order]_vars

\* C5 witness: the second of two calls with the same source and flag has returned,
\* and in it a Checker with limit dropped a match.
C5_Witness ==
    /\ ncalls = 2
    /\ Cardinality({k \in DOMAIN first : first[k].known}) = 1
    /\ call.ret.v # <<>>
    /\ \E i \in CheckMatchSteps :
          LET s == call.steps[i]
              c == rules[s.fired.key].checks[s.fired.index + 1]
          IN c.limit /\ Len(ResultsFiredBy(s.fired)) < Len(engine[<<c.pattern, s.tree>>].v)

\* C6 (as claimed): every RuleMatch returned identifies its origin: rule() is the
\* Rule that owns the Checker that fired, checker_id() is that Checker's index in
\* rule().checks(), and checker() is that Checker.
C6_MatchIdentifiesOrigin ==
    \A i \in DOMAIN call.ret.v :
        LET m == call.ret.v[i]
        IN /\ RuleMatch_rule(m) = rules[m.fired.key]
           /\ RuleMatch_checker_id(m) = m.fired.index
           /\ ~RuleMatch_checker(m).panic
           /\ RuleMatch_checker(m).v = rules[m.fired.key].checks[m.fired.index + 1]

\* C7 (as claimed): every Checker that is run in a call is run against a tree of
\* the parser of that Checker's own language.
C7_CheckerRunsOnOwnLanguage ==
    \A i \in CheckMatchSteps : call.steps[i].tree.language = call.steps[i].language

\* C7 (amended): the parser is selected by the call's is_cxx flag alone: the one
\* parse of a call is made by the C++ parser iff is_cxx, and every Checker that is
\* run is run against that tree of that source, whatever the Checker's own
\* language; a Checker's language only selects the variant its pattern is compiled
\* with.
C7_ParserFollowsFlag ==
    LET lang == IF call.is_cxx THEN "Cplusplus" ELSE "C"
    IN /\ \A i \in ParseSteps :
             call.steps[i].parser = (IF call.is_cxx THEN "cxx_parser" ELSE "c_parser")
       /\ \A i \in CheckMatchSteps :
             call.steps[i].tree = [source |-> call.source, language |-> lang]
       /\ \A c \in CheckersOf(rules) : c.pattern.cxx = (c.language = "Cplusplus")

\* C7 witness: a call with is_cxx = true has run a C Checker against the C++ tree,
\* and in the same call a C++ Checker too.
C7_Witness ==
    /\ call.is_cxx
    /\ \E i \in CheckMatchSteps :
          call.steps[i].language = "C" /\ call.steps[i].tree.language = "Cplusplus"
    /\ \E i \in CheckMatchSteps :
          call.steps[i].language = "Cplusplus" /\ call.steps[i].tree.language = "Cplusplus"

\* The checkers of the RuleSet, each by the key of its rule and its index in the
\* rule's checks, and those of them whose identifiers all occur in source.
AllFired == {[key |-> k, index |-> i] : k \in DOMAIN rules, i \in 0..(MaxChecks - 1)}
CheckerAt(f) == rules[f.key].checks[f.index + 1]
ViableFor(source) ==
    {f \in AllFired :
        /\ f.index < Len(rules[f.key].checks)
        /\ \A k \in DOMAIN CheckerAt(f).identifiers :
              memmem_find(source, CheckerAt(f).identifiers[k])}

\* The order of the steps of the latest call.
StepOrder ==
    ncalls > 0 =>
        /\ {i \in DOMAIN call.steps : call.steps[i].op = "viable_checkers"} = {1}
        /\ IF ViableFor(call.source) = {}
           THEN /\ call.steps = << [op |-> "viable_checkers"] >>
                /\ call.ret = [ok |-> TRUE, v |-> <<>>]
           ELSE /\ ParseSteps = {2}
                /\ call.steps[2].parser = (IF call.is_cxx THEN "cxx_parser" ELSE "c_parser")
                /\ CheckMatchSteps = 3..Len(call.steps)
                /\ IF ParseReturnedNone
                   THEN CheckMatchSteps = {}
                   ELSE /\ {call.steps[i].fired : i \in CheckMatchSteps}
                              = ViableFor(call.source)
                        /\ Cardinality(CheckMatchSteps)
                              = Cardinality(ViableFor(call.source))
                        /\ \A i \in CheckMatchSteps :
                              call.steps[i].tree =
                                  [source |-> call.source,
                                   language |-> ParserLanguage(call.steps[2].parser)]

\* What a call asks of the parser and of the query engine.
AsksOnlyWhatItNeeds ==
    LET source == call'.source
        parser == IF call'.is_cxx THEN "cxx_parser" ELSE "c_parser"
        tree == [source |-> source, language |-> ParserLanguage(parser)]
    IN /\ ViableFor(source) = {} => trees' = trees /\ engine' = engine
       /\ \A k \in DOMAIN trees : trees'[k] # trees[k] => k = <<source, parser>>
       /\ \A k \in DOMAIN engine :
             engine'[k] # engine[k] =>
                 k \in {<<CheckerAt(f).pattern, tree>> : f \in ViableFor(source)}

\* C13: in every matches_with call the viable checkers are computed first; when no
\* Checker of the RuleSet is viable for the source the call returns an empty list
\* and asks neither parser; otherwise the source is parsed exactly once, by the
\* parser the flag selects, after the viable checkers were computed and before any
\* Checker runs, and when the parse gives a tree every viable Checker is run once,
\* against that tree, and no other Checker is run.
C13_StepOrdering ==
    /\ []StepOrder
    /\ [][ncalls' # ncalls => AsksOnlyWhatItNeeds]_vars

\* C13 witness: a call on a RuleSet of three checkers has parsed its source once and
\* run the two viable checkers against the one tree, and not the third; and an
\* earlier call, for which no checker was viable, left both parsers unasked.
C13_Witness ==
    /\ ncalls = 2
    /\ Cardinality({f \in AllFired : f.index < Len(rules[f.key].checks)}) = 3
    /\ Cardinality(ViableFor(call.source)) = 2
    /\ ParseSteps = {2}
    /\ Cardinality(CheckMatchSteps) = 2
    /\ \A i, j \in CheckMatchSteps : call.steps[i].tree = call.steps[j].tree
    /\ \E s \in Sources, cxx \in BOOLEAN :
          /\ ViableFor(s) = {}
          /\ first[<<s, cxx>>].known
          /\ \A p \in Parsers : trees[<<s, p>>] = "unknown"

====
